---- MODULE Spec2Model ----
(***************************************************************************)
(* Search-and-summarise chat turn of the video search application:         *)
(* semantic_search, get_top_results_summary and the chat handlers of       *)
(* 1_Chat.py and main.py, with the session state they keep.                *)
(***************************************************************************)
EXTENDS Integers, Sequences, FiniteSets, TLC

VARIABLES entry, inited, messages, search_results, total_count,
          selected_years, year_filter, pc, prompt, pre, calls, notices,
          fault, turns, view, fn_pc, fn_args, fn_env, fn_ret, shape

vars == <<entry, inited, messages, search_results, total_count,
          selected_years, year_filter, pc, prompt, pre, calls, notices,
          fault, turns, view, fn_pc, fn_args, fn_env, fn_ret, shape>>

appVars == <<entry, inited, messages, search_results, total_count,
             selected_years, year_filter, pc, prompt, pre, calls, notices,
             fault, turns, view>>

fnVars == <<fn_pc, fn_args, fn_env, fn_ret, shape>>

----------------------------------------------------------------------------
(* Bounds of the model *)

MaxBatch == 4
MaxTurns == 2
MaxPage == 3

(* Program constants *)

MAX_RESULTS_PER_PAGE == 50
FallbackMinYear == 2000
FallbackMaxYear == 2024

Queries == {"q1", "q2"}
Responses == {" s1 ", "s2"}

Min(a, b) == IF a < b THEN a ELSE b

----------------------------------------------------------------------------
(* Values of the VIDEO_YEAR column *)

DateCell(y, m, d) == [kind |-> "date", v |-> <<y, m, d>>]
IntCell(n) == [kind |-> "int", v |-> <<n>>]
MissingCell == [kind |-> "missing", v |-> <<>>]
BadCell == [kind |-> "bad", v |-> <<>>]
NaNCell == [kind |-> "nan", v |-> <<>>]

(* A record of the search service: the four requested columns.  Text      *)
(* fields are opaque tokens; every second record has no thumbnail.        *)
Rec(i, year) ==
  [VIDEO_TITLE |-> <<"title", i>>, VIDEO_DESCRIPTION |-> <<"description", i>>,
   THUMBNAIL |-> IF i % 2 = 0 THEN <<>> ELSE <<"thumb", i>>,
   VIDEO_YEAR |-> year]

GoodRec(i) == Rec(i, DateCell(FallbackMinYear + i, 1, 1))

SeqsUpTo(S, n) == UNION {[1..k -> S] : k \in 0..n}

(* Batches the service returns to a direct call of semantic_search: any   *)
(* sequence of well-formed, malformed and missing-year records.           *)
FnRecords ==
  {GoodRec(1), GoodRec(2), Rec(3, BadCell), Rec(4, MissingCell)}
FnBatches == SeqsUpTo(FnRecords, MaxBatch)

(* Batches the service returns to the chat page: the first n records of   *)
(* the relevance order of the query, for every n up to MaxBatch, and a    *)
(* batch that holds a malformed date and one that holds a missing date.   *)
Ranking(query, n) ==
  [i \in 1..n |-> IF query = "q1" THEN GoodRec(i) ELSE GoodRec(n + 1 - i)]
ChatBatches(query) ==
  {Ranking(query, n) : n \in 0..MaxBatch}
  \cup {<<GoodRec(1), Rec(3, BadCell)>>, <<Rec(4, MissingCell), GoodRec(2)>>}

----------------------------------------------------------------------------
(* Optional values *)

NoneDf == [some |-> FALSE, rows |-> <<>>]
Df(rows) == [some |-> TRUE, rows |-> rows]
NoYears == <<>>
NoFilter == [some |-> FALSE, gte |-> <<>>, lte |-> <<>>]

SearchError == "Error performing semantic search"
SummaryError == "Error generating summaries"
NoResultsMessage == "I couldn't find any relevant videos for your query."
NoSummaryMessage == "Could not generate summary."

----------------------------------------------------------------------------
(* semantic_search *)

(* f"{min_year:04d}-01-01" and f"{max_year:04d}-12-31" *)
MinDate(min_year) == <<min_year, 1, 1>>
MaxDate(max_year) == <<max_year, 12, 31>>

(* Python truth value of an int *)
Truthy(n) == n # 0

BuildFilter(year_range) ==
  IF year_range = NoYears THEN NoFilter
  ELSE LET min_year == year_range[1]
           max_year == year_range[2]
           min_date == MinDate(min_year)
           max_date == MaxDate(max_year)
       IN IF Truthy(min_year) /\ Truthy(max_year)
          THEN [some |-> TRUE, gte |-> min_date, lte |-> max_date]
          ELSE NoFilter

(* The offset computed from the page number itself *)
OffsetFromPage(page) == page * MAX_RESULTS_PER_PAGE

Offset(page) == (page - 1) * MAX_RESULTS_PER_PAGE

(* pd.to_datetime on one value: a timestamp, NaT, or a parse error *)
ToDatetime(cell) ==
  CASE cell.kind = "date" -> [kind |-> "ts", v |-> cell.v]
    [] cell.kind = "int" -> [kind |-> "ts", v |-> <<1970, 1, 1>>]
    [] cell.kind = "missing" -> [kind |-> "nat", v |-> <<>>]
    [] cell.kind = "nan" -> [kind |-> "nat", v |-> <<>>]
    [] OTHER -> [kind |-> "error", v |-> <<>>]

(* .dt.year *)
DtYear(ts) == IF ts.kind = "ts" THEN IntCell(ts.v[1]) ELSE NaNCell

ConversionRaises(rows) ==
  \E i \in 1..Len(rows) : ToDatetime(rows[i].VIDEO_YEAR).kind = "error"

ConvertYears(rows) ==
  [i \in 1..Len(rows) |->
     [rows[i] EXCEPT !.VIDEO_YEAR = DtYear(ToDatetime(rows[i].VIDEO_YEAR))]]

SearchEvent(req, ok, ret) == [op |-> "search", arg |-> req, ok |-> ok, ret |-> ret]

(* The handler re-raises instead of returning the empty result *)
SearchFailedPropagates(events) ==
  [results |-> NoneDf, total_count |-> 0, calls |-> events,
   notices |-> <<>>, raised |-> TRUE]

SearchFailed(events) ==
  [results |-> NoneDf, total_count |-> 0, calls |-> events,
   notices |-> <<SearchError>>, raised |-> FALSE]

SemanticSearch(query, page, year_range, env) ==
  IF ~env.session THEN SearchFailed(<<>>)
  ELSE
    LET offset == Offset(page)
        filter_obj == BuildFilter(year_range)
        req == [query |-> query, limit |-> MAX_RESULTS_PER_PAGE,
                offset |-> offset, filter |-> filter_obj]
    IN IF env.raises THEN SearchFailed(<<SearchEvent(req, FALSE, <<>>)>>)
       ELSE IF env.batch # <<>> /\ ConversionRaises(env.batch)
            THEN SearchFailed(<<SearchEvent(req, TRUE, env.batch)>>)
            ELSE [results |-> Df(ConvertYears(env.batch)),
                  total_count |-> Len(env.batch),
                  calls |-> <<SearchEvent(req, TRUE, env.batch)>>,
                  notices |-> <<>>, raised |-> FALSE]

(* The call made by the chat input: page 1 and the selected years. *)
ChatSearch(query, years, env) == SemanticSearch(query, 1, years, env)

(* What the platform does during one call of semantic_search. *)
SearchEnvs(batches) ==
  {[session |-> FALSE, raises |-> FALSE, batch |-> <<>>],
   [session |-> TRUE, raises |-> TRUE, batch |-> <<>>]}
  \cup {[session |-> TRUE, raises |-> FALSE, batch |-> b] : b \in batches}

----------------------------------------------------------------------------
(* get_top_results_summary *)

(* response.strip() *)
Strip(response) == IF response = " s1 " THEN "s1" ELSE response

(* Every record of the batch goes into the prompt *)
TopCountAll(n) == n

(* range(min(3, len(results_df))) of get_top_results_summary *)
TopCount(n) == Min(3, n)

(* One "Talk k: Title: .. Description: .." block of the prompt *)
Talk(idx, row) ==
  [label |-> idx + 1, title |-> row.VIDEO_TITLE,
   description |-> row.VIDEO_DESCRIPTION]

(* The blocks of the prompt; idx is the 0-based index of the source *)
PromptVideos(rows) ==
  [k \in 1..TopCount(Len(rows)) |-> Talk(k - 1, rows[(k - 1) + 1])]

CompleteEvent(req, ok, ret) ==
  [op |-> "complete", arg |-> req, ok |-> ok, ret |-> ret]

(* The completion request is sent a second time after a failure *)
SummaryFailedRetry(events) ==
  [some |-> FALSE, summary |-> "", calls |-> events \o events,
   notices |-> <<SummaryError>>, raised |-> FALSE]

SummaryFailed(events) ==
  [some |-> FALSE, summary |-> "", calls |-> events,
   notices |-> <<SummaryError>>, raised |-> FALSE]

GetTopResultsSummary(rows, env) ==
  IF ~env.session THEN SummaryFailed(<<>>)
  ELSE
    LET req == [model |-> "mistral-large2", prompt |-> PromptVideos(rows)]
    IN IF env.raises THEN SummaryFailed(<<CompleteEvent(req, FALSE, <<>>)>>)
       ELSE [some |-> TRUE, summary |-> Strip(env.response),
             calls |-> <<CompleteEvent(req, TRUE, <<env.response>>)>>,
             notices |-> <<>>, raised |-> FALSE]

(* What the platform does during one call of get_top_results_summary. *)
SummaryEnvs ==
  {[session |-> FALSE, raises |-> FALSE, response |-> ""],
   [session |-> TRUE, raises |-> TRUE, response |-> ""]}
  \cup {[session |-> TRUE, raises |-> FALSE, response |-> r] : r \in Responses}

----------------------------------------------------------------------------
(* The chat handlers: main() of 1_Chat.py and of main.py *)

UserEntry(query) == [role |-> "user", content |-> query, videos |-> <<>>]
AssistantEntry(content, videos) ==
  [role |-> "assistant", content |-> content, videos |-> videos]

(* Only the None check, without the emptiness check *)
HasResultsNotNone(results) == results.some

(* results is not None and not results.empty *)
HasResults(results) == results.some /\ results.rows # <<>>

(* range(min(3, len(results))) of main *)
AttachCount(n) == Min(3, n)

VideoData(rows) ==
  [k \in 1..AttachCount(Len(rows)) |->
     [thumbnail |-> rows[k].THUMBNAIL, title |-> rows[k].VIDEO_TITLE,
      year |-> rows[k].VIDEO_YEAR, description |-> rows[k].VIDEO_DESCRIPTION]]

(* The value the slider can take: a pair with lo <= hi inside the range. *)
SliderYears == {FallbackMinYear, FallbackMaxYear}
SliderValues == {<<lo, hi>> : lo \in SliderYears, hi \in SliderYears} \ {<<FallbackMaxYear, FallbackMinYear>>}
SliderDefault == <<FallbackMinYear, FallbackMaxYear>>

NoArgs == [query |-> "", page |-> 0, year_range |-> NoYears]
NoEnv == [session |-> FALSE, raises |-> FALSE, batch |-> <<>>]
NoRet == [results |-> NoneDf, total_count |-> 0, calls |-> <<>>,
          notices |-> <<>>, raised |-> FALSE]

AppInit ==
  /\ entry \in {"1_Chat", "main"}
  /\ inited = FALSE
  /\ messages = <<>>
  /\ search_results = NoneDf
  /\ total_count = 0
  /\ selected_years = NoYears
  /\ year_filter = SliderDefault
  /\ pc = "idle"
  /\ prompt = ""
  /\ pre = <<>>
  /\ calls = <<>>
  /\ notices = <<>>
  /\ fault = FALSE
  /\ turns = 0
  /\ view = "none"

(* The year conversion of semantic_search taken on its own: the block    *)
(* that replaces VIDEO_YEAR by its calendar year, skipped for an empty    *)
(* frame, raising when a value does not parse.                            *)
ShapeYears(rows) ==
  IF rows # <<>>
  THEN IF ConversionRaises(rows)
       THEN [raised |-> TRUE, rows |-> <<>>]
       ELSE [raised |-> FALSE, rows |-> ConvertYears(rows)]
  ELSE [raised |-> FALSE, rows |-> rows]

NoShape == [raised |-> FALSE, rows |-> <<>>]
ShapeOff == [pc |-> "off", raw |-> <<>>, once |-> NoShape, twice |-> NoShape]

Init ==
  /\ AppInit
  /\ fn_pc = "off"
  /\ fn_args = NoArgs
  /\ fn_env = NoEnv
  /\ fn_ret = NoRet
  /\ shape = ShapeOff

(* A run of main() without a submitted query, when the session opens the *)
(* chat page or comes back to it: the session keys are created if they    *)
(* are not there yet and the year filter stores the slider value.         *)
OpenChat ==
  /\ pc = "idle"
  /\ view # "chat"
  /\ inited' = TRUE
  /\ IF ~inited
     THEN /\ messages' = <<>>
          /\ search_results' = NoneDf
          /\ total_count' = 0
     ELSE UNCHANGED <<messages, search_results, total_count>>
  /\ selected_years' = year_filter
  /\ fault' = FALSE
  /\ view' = "chat"
  /\ UNCHANGED <<entry, year_filter, pc, prompt, pre, calls, notices, turns>>
  /\ UNCHANGED fnVars

(* The branch 2_Videos.py takes on the stored results. *)
VideosView(results) ==
  IF results.some /\ results.rows # <<>> THEN "grid"
  ELSE IF results.some THEN "warning"
  ELSE "info"

(* A run of pages/2_Videos.py.  It reads st.session_state.search_results  *)
(* without creating it: on a session where main() has not run yet the     *)
(* read raises and the run of the script is aborted.                      *)
OpenVideos ==
  /\ pc = "idle"
  /\ IF ~inited
     THEN /\ fault' = TRUE
          /\ view' = "error"
     ELSE /\ fault' = FALSE
          /\ view' = VideosView(search_results)
  /\ UNCHANGED <<entry, inited, messages, search_results, total_count,
                 selected_years, year_filter, pc, prompt, pre, calls, notices,
                 turns>>
  /\ UNCHANGED fnVars

(* The user moves the slider: the fragment year_filter() runs again. *)
YearFilter ==
  /\ pc = "idle"
  /\ inited
  /\ view = "chat"
  /\ \E years \in SliderValues :
       /\ year_filter' = years
       /\ selected_years' = years
  /\ UNCHANGED <<entry, inited, messages, search_results, total_count, pc,
                 prompt, pre, calls, notices, fault, turns, view>>
  /\ UNCHANGED fnVars

(* The user submits a query: main() runs, the user entry is appended. *)
Submit ==
  /\ pc = "idle"
  /\ inited
  /\ view = "chat"
  /\ turns < MaxTurns
  /\ \E query \in Queries :
       /\ prompt' = query
       /\ messages' = Append(messages, UserEntry(query))
  /\ selected_years' = year_filter
  /\ pre' = messages
  /\ calls' = <<>>
  /\ notices' = <<>>
  /\ fault' = FALSE
  /\ turns' = turns + 1
  /\ pc' = "search"
  /\ UNCHANGED <<entry, inited, search_results, total_count, year_filter, view>>
  /\ UNCHANGED fnVars

(* The entry appended when there is nothing to summarise: 1_Chat.py      *)
(* writes "videos": [], main.py writes no videos key; both read as no     *)
(* attached records.                                                      *)
ChatNoResultsEntry == <<AssistantEntry(NoResultsMessage, <<>>)>>
MainNoResultsEntry == <<AssistantEntry(NoResultsMessage, <<>>)>>
NoResultsEntry(e) == IF e = "1_Chat" THEN ChatNoResultsEntry ELSE MainNoResultsEntry

(* The session keeps the earlier results when the search yields None *)
SearchKeepsOldOnFailure ==
  /\ pc = "search"
  /\ \E env \in SearchEnvs(ChatBatches(prompt)) :
       LET out == ChatSearch(prompt, selected_years, env)
       IN /\ search_results' = IF out.results.some THEN out.results ELSE search_results
          /\ total_count' = IF out.results.some THEN out.total_count ELSE total_count
          /\ calls' = calls \o out.calls
          /\ notices' = notices \o out.notices
          /\ IF out.raised
             THEN /\ fault' = TRUE
                  /\ pc' = "idle"
                  /\ UNCHANGED messages
             ELSE /\ UNCHANGED fault
                  /\ IF HasResults(out.results)
                     THEN /\ pc' = "summary"
                          /\ UNCHANGED messages
                     ELSE /\ pc' = "idle"
                          /\ messages' = messages \o NoResultsEntry(entry)
  /\ UNCHANGED <<entry, inited, selected_years, year_filter, prompt, pre, turns,
                 view>>
  /\ UNCHANGED fnVars

(* semantic_search returns; the results are stored in the session.  The  *)
(* same lines are main.py 263-267.  An exception that leaves the call     *)
(* aborts the run of the script: fault.                                   *)
Search ==
  /\ pc = "search"
  /\ \E env \in SearchEnvs(ChatBatches(prompt)) :
       LET out == ChatSearch(prompt, selected_years, env)
       IN /\ search_results' = out.results
          /\ total_count' = out.total_count
          /\ calls' = calls \o out.calls
          /\ notices' = notices \o out.notices
          /\ IF out.raised
             THEN /\ fault' = TRUE
                  /\ pc' = "idle"
                  /\ UNCHANGED messages
             ELSE /\ UNCHANGED fault
                  /\ IF HasResults(out.results)
                     THEN /\ pc' = "summary"
                          /\ UNCHANGED messages
                     ELSE /\ pc' = "idle"
                          /\ messages' = messages \o NoResultsEntry(entry)
  /\ UNCHANGED <<entry, inited, selected_years, year_filter, prompt, pre, turns,
                 view>>
  /\ UNCHANGED fnVars

(* What main() of 1_Chat.py appends once get_top_results_summary has     *)
(* returned: the summary with the top videos, or the fallback entry.      *)
ChatSummaryEntries(out, results) ==
  IF out.some
  THEN <<AssistantEntry(out.summary, VideoData(results.rows))>>
  ELSE <<AssistantEntry(NoSummaryMessage, <<>>)>>

(* What main() of main.py appends: the summary, or nothing at all. *)
MainSummaryEntries(out) ==
  IF out.some
  THEN <<AssistantEntry(out.summary, <<>>)>>
  ELSE <<>>

SummaryEntries(e, out, results) ==
  IF e = "1_Chat" THEN ChatSummaryEntries(out, results) ELSE MainSummaryEntries(out)

(* The notice main.py shows with st.error instead of an entry. *)
SummaryNotices(e, out) ==
  IF ~out.some /\ e = "main" THEN <<NoSummaryMessage>> ELSE <<>>

(* get_top_results_summary returns; the turn ends. *)
Summarize ==
  /\ pc = "summary"
  /\ \E env \in SummaryEnvs :
       LET out == GetTopResultsSummary(search_results.rows, env)
       IN /\ calls' = calls \o out.calls
          /\ notices' = notices \o out.notices \o SummaryNotices(entry, out)
          /\ fault' = out.raised
          /\ messages' = IF out.raised THEN messages
                         ELSE messages \o SummaryEntries(entry, out, search_results)
  /\ pc' = "idle"
  /\ UNCHANGED <<entry, inited, search_results, total_count, selected_years,
                 year_filter, prompt, pre, turns, view>>
  /\ UNCHANGED fnVars

Next == OpenChat \/ OpenVideos \/ YearFilter \/ Submit \/ Search \/ Summarize

Spec == Init /\ [][Next]_vars

----------------------------------------------------------------------------
(* semantic_search called on its own, by a direct caller with any page    *)
(* and year range, or by the chat input.                                  *)

FnYears == {0, FallbackMinYear, FallbackMaxYear}
FnYearRanges == {NoYears} \cup {<<lo, hi>> : lo \in FnYears, hi \in FnYears}

SearchInit ==
  /\ AppInit
  /\ entry = "1_Chat"
  /\ fn_pc = "ready"
  /\ fn_args \in [query : Queries, page : 1..MaxPage, year_range : FnYearRanges]
  /\ fn_env \in SearchEnvs(FnBatches)
  /\ fn_ret = NoRet
  /\ shape = ShapeOff

CallDirect ==
  /\ fn_pc = "ready"
  /\ fn_ret' = SemanticSearch(fn_args.query, fn_args.page, fn_args.year_range, fn_env)
  /\ fn_pc' = "direct"
  /\ UNCHANGED <<fn_args, fn_env, shape>>
  /\ UNCHANGED appVars

CallFromChat ==
  /\ fn_pc = "ready"
  /\ fn_ret' = ChatSearch(fn_args.query, fn_args.year_range, fn_env)
  /\ fn_pc' = "chat"
  /\ UNCHANGED <<fn_args, fn_env, shape>>
  /\ UNCHANGED appVars

SearchNext == CallDirect \/ CallFromChat

SearchSpec == SearchInit /\ [][SearchNext]_vars

----------------------------------------------------------------------------
(* The year conversion applied to a returned batch, and then once more to *)
(* its own output.                                                        *)

ShaperInit ==
  /\ AppInit
  /\ entry = "1_Chat"
  /\ fn_pc = "off"
  /\ fn_args = NoArgs
  /\ fn_env = NoEnv
  /\ fn_ret = NoRet
  /\ shape \in {[pc |-> "raw", raw |-> b, once |-> NoShape, twice |-> NoShape] :
                  b \in FnBatches}

ShapeOnce ==
  /\ shape.pc = "raw"
  /\ LET out == ShapeYears(shape.raw)
     IN shape' = [shape EXCEPT !.once = out,
                               !.pc = IF out.raised THEN "error" ELSE "once"]
  /\ UNCHANGED <<fn_pc, fn_args, fn_env, fn_ret>>
  /\ UNCHANGED appVars

ShapeAgain ==
  /\ shape.pc = "once"
  /\ shape' = [shape EXCEPT !.twice = ShapeYears(shape.once.rows), !.pc = "twice"]
  /\ UNCHANGED <<fn_pc, fn_args, fn_env, fn_ret>>
  /\ UNCHANGED appVars

ShaperNext == ShapeOnce \/ ShapeAgain

ShaperSpec == ShaperInit /\ [][ShaperNext]_vars

----------------------------------------------------------------------------
(* Observations used by the properties *)

Called == fn_pc \in {"direct", "chat"}
InTurn == inited /\ turns > 0
TurnDone == InTurn /\ pc = "idle"
SearchReturned == InTurn /\ pc # "search"
EventsOf(op) == {i \in 1..Len(calls) : calls[i].op = op}
LastMessage == messages[Len(messages)]
Alternates ==
  \A i \in 1..Len(messages) :
    messages[i].role = IF i % 2 = 1 THEN "user" ELSE "assistant"

(* The calendar year of a stored date, as the properties expect it *)
YearOfStored(cell) == IF cell.kind = "date" THEN IntCell(cell.v[1]) ELSE NaNCell
WellFormed(rec) == rec.VIDEO_YEAR.kind = "date"

----------------------------------------------------------------------------
(* C1: in both entry points a finished turn leaves the transcript equal   *)
(* to the transcript before the turn, then one user entry holding the     *)
(* query, then one assistant entry; the transcript alternates user,       *)
(* assistant.  (Fails in main.py when the summary call fails.)            *)
C1_TurnAppendsUserThenAssistant ==
  TurnDone =>
    /\ Len(messages) = Len(pre) + 2
    /\ SubSeq(messages, 1, Len(pre)) = pre
    /\ messages[Len(pre) + 1] = UserEntry(prompt)
    /\ messages[Len(pre) + 2].role = "assistant"
    /\ Alternates

(* C2: a year range with min_year > max_year is reported as a validation  *)
(* error and no request reaches the search service.  (The source has no   *)
(* such check.)                                                           *)
C2_InvertedRangeRejected ==
  (/\ Called
   /\ fn_args.year_range # NoYears
   /\ fn_args.year_range[1] > fn_args.year_range[2])
  => /\ fn_ret.calls = <<>>
     /\ fn_ret.notices # <<>>

(* C3: for min_year <= max_year the filter sent is VIDEO_YEAR >=          *)
(* min_year-01-01 and VIDEO_YEAR <= max_year-12-31, and the filter is     *)
(* omitted exactly when no year range is given.  (Fails for year 0.)      *)
C3_FilterIsInclusiveRange ==
  (Called /\ fn_ret.calls # <<>>) =>
    LET f == fn_ret.calls[1].arg.filter
        yr == fn_args.year_range
    IN /\ (yr # NoYears /\ yr[1] <= yr[2]) =>
            f = [some |-> TRUE, gte |-> <<yr[1], 1, 1>>, lte |-> <<yr[2], 12, 31>>]
       /\ (~f.some) <=> (yr = NoYears)

(* C4: when the search call returns zero records, no completion request   *)
(* is issued in that turn and the assistant entry appended is the fixed   *)
(* "no relevant videos" message.                                          *)
C4_ZeroRecords ==
  InTurn /\ \E i \in EventsOf("search") : calls[i].ok /\ calls[i].ret = <<>>
C4_NoSummaryOnZeroRecords ==
  C4_ZeroRecords =>
    /\ pc = "idle"
    /\ EventsOf("complete") = {}
    /\ Len(messages) = Len(pre) + 2
    /\ LastMessage = [role |-> "assistant", videos |-> <<>>,
                      content |-> "I couldn't find any relevant videos for your query."]
C4_Witness == C4_ZeroRecords /\ pc = "idle" /\ Len(pre) > 0

(* C5: when the search call, or session creation for it, raises, the      *)
(* error does not propagate: a notice is shown, the result is empty with  *)
(* total count 0, no completion request is issued and the turn completes  *)
(* with an assistant entry.                                               *)
C5_SearchErrored ==
  SearchReturned /\ (calls = <<>> \/ (calls[1].op = "search" /\ ~calls[1].ok))
C5_SearchErrorHandled ==
  C5_SearchErrored =>
    /\ ~fault
    /\ \E i \in 1..Len(notices) : notices[i] = "Error performing semantic search"
    /\ ~search_results.some
    /\ search_results.rows = <<>>
    /\ total_count = 0
    /\ EventsOf("complete") = {}
    /\ pc = "idle"
    /\ Len(messages) = Len(pre) + 2
    /\ LastMessage.role = "assistant"
C5_Witness ==
  C5_SearchErrored /\ calls # <<>> /\ pc = "idle" /\ LastMessage.role = "assistant"

(* C6: when the completion call fails on a non-empty search result, no    *)
(* error propagates and the turn's assistant entry in the transcript is   *)
(* "Could not generate summary." with no attached records.  (main.py      *)
(* appends no entry.)                                                     *)
C6_SummaryFailureFallback ==
  (/\ TurnDone
   /\ HasResults(search_results)
   /\ \A i \in EventsOf("complete") : ~calls[i].ok)
  => /\ ~fault
     /\ Len(messages) = Len(pre) + 2
     /\ LastMessage = [role |-> "assistant", videos |-> <<>>,
                       content |-> "Could not generate summary."]

(* C7: the records enumerated in the summary prompt are the first         *)
(* min(3, n) records returned by the search, in order, labelled Talk 1..; *)
(* in 1_Chat.py the records attached to the assistant entry are the same  *)
(* sequence; no record beyond the third is included.                      *)
C7_TopThreeInOrder ==
  \A i \in EventsOf("complete") :
    LET batch == calls[1].ret
        n == Len(batch)
        m == IF n < 3 THEN n ELSE 3
        talks == calls[i].arg.prompt
    IN /\ n >= 1
       /\ Len(talks) = m
       /\ \A k \in 1..m :
            talks[k] = [label |-> k, title |-> batch[k].VIDEO_TITLE,
                        description |-> batch[k].VIDEO_DESCRIPTION]
       /\ (TurnDone /\ entry = "1_Chat" /\ calls[i].ok) =>
            /\ Len(LastMessage.videos) = m
            /\ \A k \in 1..m :
                 LastMessage.videos[k] =
                   [thumbnail |-> batch[k].THUMBNAIL, title |-> batch[k].VIDEO_TITLE,
                    year |-> YearOfStored(batch[k].VIDEO_YEAR),
                    description |-> batch[k].VIDEO_DESCRIPTION]
C7_Witness ==
  /\ TurnDone /\ entry = "1_Chat"
  /\ \E i \in EventsOf("complete") : calls[i].ok /\ Len(calls[i].arg.prompt) = 3
  /\ Len(calls[1].ret) > 3
  /\ Len(LastMessage.videos) = 3
  /\ LastMessage.videos[1].title # LastMessage.videos[3].title

(* C8 as stated: exactly one search request per submitted query, and      *)
(* exactly one completion request when the search returned a record.      *)
C8_ExactlyOneSearchPerQuery ==
  TurnDone =>
    /\ Cardinality(EventsOf("search")) = 1
    /\ Cardinality(EventsOf("complete")) <= 1
    /\ (\E i \in EventsOf("search") : calls[i].ok /\ calls[i].ret # <<>>)
         => Cardinality(EventsOf("complete")) = 1

(* C8 amended: no retries.  At most one search request per submitted      *)
(* query, exactly one unless session creation for the search fails (then  *)
(* none, with the error notice); a completion request is issued only      *)
(* after the search has returned; at most one completion request per      *)
(* turn, exactly one when semantic_search yielded at least one record and *)
(* session creation for the summary succeeded, none otherwise.            *)
C8_OneChainNoRetries ==
  InTurn =>
    /\ Cardinality(EventsOf("search")) <= 1
    /\ Cardinality(EventsOf("complete")) <= 1
    /\ SearchReturned =>
         \/ Cardinality(EventsOf("search")) = 1
         \/ /\ calls = <<>>
            /\ ~search_results.some
            /\ \E j \in 1..Len(notices) : notices[j] = "Error performing semantic search"
    /\ \A i \in EventsOf("complete") :
         i = 2 /\ calls[1].op = "search" /\ calls[1].ok /\ pc = "idle"
    /\ TurnDone =>
         IF search_results.some /\ search_results.rows # <<>>
         THEN \/ Cardinality(EventsOf("complete")) = 1
              \/ /\ EventsOf("complete") = {}
                 /\ \E j \in 1..Len(notices) : notices[j] = "Error generating summaries"
         ELSE EventsOf("complete") = {}
C8_Witness ==
  /\ TurnDone
  /\ Len(calls) = 2
  /\ calls[1].op = "search" /\ calls[1].ok
  /\ calls[2].op = "complete" /\ ~calls[2].ok

(* C9: for every page >= 1 the request sent to the search service has     *)
(* offset = (page - 1) * 50 and limit 50; a search issued from the chat   *)
(* input uses page 1, offset 0.                                           *)
C9_OffsetFromPage ==
  (Called /\ fn_ret.calls # <<>>) =>
    LET req == fn_ret.calls[1].arg
    IN /\ Len(fn_ret.calls) = 1
       /\ req.limit = 50
       /\ fn_pc = "direct" => req.offset = (fn_args.page - 1) * 50
       /\ fn_pc = "chat" => req.offset = 0
C9_Witness ==
  /\ fn_pc = "direct" /\ fn_args.page = 3
  /\ fn_ret.calls # <<>> /\ fn_ret.calls[1].arg.offset = 100

(* C10: a record whose VIDEO_YEAR is missing or malformed is reported and *)
(* only that record is excluded; the well-formed records are returned     *)
(* with their years converted.  (The source drops the whole batch on a    *)
(* malformed date and keeps a missing one unreported.)                    *)
C10_OnlyBadRecordsExcluded ==
  (Called /\ fn_ret.calls # <<>> /\ fn_ret.calls[1].ok) =>
    LET batch == fn_ret.calls[1].ret
        kept == SelectSeq(batch, WellFormed)
    IN /\ fn_ret.results.rows =
            [k \in 1..Len(kept) |->
               [kept[k] EXCEPT !.VIDEO_YEAR = YearOfStored(kept[k].VIDEO_YEAR)]]
       /\ (Len(kept) < Len(batch)) => fn_ret.notices # <<>>

(* C11: the year conversion is idempotent: applied again to a record      *)
(* whose VIDEO_YEAR is already a plain year integer, it leaves the year   *)
(* unchanged.  (pd.to_datetime reads an integer as nanoseconds since the  *)
(* epoch, so the second pass yields 1970.)                                *)
C11_YearConversionIdempotent ==
  shape.pc = "twice" =>
    /\ ~shape.twice.raised
    /\ Len(shape.twice.rows) = Len(shape.once.rows)
    /\ \A k \in 1..Len(shape.once.rows) :
         shape.once.rows[k].VIDEO_YEAR.kind = "int" =>
           shape.twice.rows[k].VIDEO_YEAR = shape.once.rows[k].VIDEO_YEAR

(* C12: after every completed turn search_results and total_count are     *)
(* those of that turn only, overwritten even on failure or zero records,  *)
(* and total_count is the number of records held in search_results (0     *)
(* when search_results is None or empty).                                 *)
C12_Parses(batch) == \A k \in 1..Len(batch) : batch[k].VIDEO_YEAR.kind # "bad"
C12_ResultsOfThisTurn ==
  SearchReturned =>
    /\ total_count = Len(search_results.rows)
    /\ ~search_results.some => (total_count = 0 /\ search_results.rows = <<>>)
    /\ IF calls # <<>> /\ calls[1].op = "search" /\ calls[1].ok
          /\ C12_Parses(calls[1].ret)
       THEN /\ search_results.some
            /\ Len(search_results.rows) = Len(calls[1].ret)
            /\ \A k \in 1..Len(calls[1].ret) :
                 search_results.rows[k] =
                   [calls[1].ret[k] EXCEPT
                      !.VIDEO_YEAR = YearOfStored(calls[1].ret[k].VIDEO_YEAR)]
       ELSE ~search_results.some
C12_Witness ==
  /\ TurnDone /\ turns = 2
  /\ ~search_results.some /\ total_count = 0
  /\ Len(pre) >= 2 /\ pre[2].videos # <<>>

(* C13: in any order of page visits and queries the Videos page renders   *)
(* exactly one of three outcomes without faulting: the grid when          *)
(* search_results is non-empty, the "No results found." warning when a    *)
(* search returned an empty result, the hint when no result is stored,    *)
(* also on a session that opens the Videos page before the chat page.     *)
(* (On such a session the read of search_results raises.)                 *)
C13_VideosRendersOneOutcome ==
  (view \notin {"none", "chat"}) =>
    /\ ~fault
    /\ view = IF search_results.some /\ Len(search_results.rows) > 0 THEN "grid"
              ELSE IF search_results.some THEN "warning"
              ELSE "info"

====
